---- MODULE Spec2Model ----
(***************************************************************************)
(* Layer-W walloc: a free-list allocator (DefaultAllocator) and a tiered   *)
(* bump allocator (TieredAllocator over three Arenas) behind the Walloc    *)
(* facade, over one growable wasm32 linear memory.                         *)
(*                                                                         *)
(* Addresses and sizes are byte counts.  Linear memory is modelled as a    *)
(* sparse map from the address of a BlockHeader field to the value last    *)
(* written there, so headers that are no longer part of the list stay in   *)
(* memory exactly as the code leaves them.  All request sizes used here    *)
(* are far below 2^31, so no usize addition wraps.                         *)
(***************************************************************************)
EXTENDS Integers, Sequences, FiniteSets, TLC

\* ------------------------------------------------------------------ bounds
\* Pages of linear memory when the allocator is constructed.
InitPages == 1
\* Pages memory.grow may add before the host refuses.
GrowRoom == 5
\* Number of facade calls explored in one behaviour: default mode, tiered mode.
MaxOps == 4
\* Number of calls explored when released offsets are released again.
MaxMisuseOps == 6
MaxTierOps == 3
\* memory.grow calls one facade call may make.
MaxGrowCalls == 2
NCallers == 2
\* The last clock reading, in milliseconds, a behaviour of the event system
\* reaches.
MaxClock == 48

\* --------------------------------------------------------- program constants
PageSize == 65536
\* size_of::<BlockHeader>() on wasm32: usize, pointer, bool, u8, padded to 4.
HeaderSize == 12
max_pages == 65536

NULL == 0
MaxPages == InitPages + GrowRoom

VARIABLES
    strategy,        \* "Default" or "Tiered": Walloc.strategy
    memory_base,     \* Walloc.memory_base
    pages,           \* core::arch::wasm32::memory_size(0)
    memory_size,     \* Walloc.memory_size
    mem,             \* linear memory: header field address -> value
    free_list_head,  \* DefaultAllocator.free_list_head
    heap_end,        \* DefaultAllocator.heap_end
    arena,           \* TieredAllocator: tier -> Arena
    trapped,         \* the instance hit an out-of-bounds access
    live,            \* offsets the caller holds: returned and not released
    released,        \* offsets the caller released, not returned again since
    hist,            \* per tier: the last call, the arena's first offset
    rejected,        \* the last tiered call refused for its tier number
    nops,            \* number of facade calls made so far
    last,            \* the last facade call: arguments, result, state before
    caller,          \* concurrent Arena::allocate calls: position and locals
    wevent           \* the WEvent instance, its timer and the clock it reads

vars == <<strategy, memory_base, pages, memory_size, mem, free_list_head,
          heap_end, arena, trapped, live, released, hist, rejected, nops,
          last, caller, wevent>>

\* DefaultAllocator.heap_start: the facade passes its memory_base.
heap_start == memory_base

\* ------------------------------------------------------------ linear memory
\* Memory is the bytes written so far, address -> byte; an unwritten byte
\* reads 0.  Words are little-endian.
Rd(m, a) == IF a \in DOMAIN m THEN m[a] ELSE 0
RdWord(m, a) ==
    Rd(m, a) + 256 * Rd(m, a + 1) + 65536 * Rd(m, a + 2)
        + 16777216 * Rd(m, a + 3)
Put(m, a, w, v) ==
    [x \in (DOMAIN m) \cup (a..(a + w - 1)) |->
        IF x \in a..(a + w - 1) THEN (v \div (256 ^ (x - a))) % 256
        ELSE m[x]]

\* A store of w bytes at a; past the end of linear memory it traps, and
\* nothing after a trap executes.
Store(h, a, w, v) ==
    IF h.trap THEN h
    ELSE IF a + w > h.pages * PageSize THEN [h EXCEPT !.trap = TRUE]
    ELSE [h EXCEPT !.mem = Put(h.mem, a, w, v)]

\* BlockHeader fields: size at +0, next at +4, is_free at +8, tier at +9.
BSize(m, b) == RdWord(m, b)
BNext(m, b) == RdWord(m, b + 4)
BFree(m, b) == Rd(m, b + 8) # 0
SetSize(h, b, v) == Store(h, b, 4, v)
SetNext(h, b, v) == Store(h, b + 4, 4, v)
SetFree(h, b, v) == Store(h, b + 8, 1, IF v THEN 1 ELSE 0)
SetTier(h, b, v) == Store(h, b + 9, 1, v)

\* (size + a - 1) & !(a - 1) for a power of two a, without wrap-around.
AlignUp(size, a) == ((size + a - 1) \div a) * a

\* -------------------------------------------------------- DefaultAllocator
\* The allocator as a value: its fields and the memory it writes.
DefaultAllocator_new(start, heap_size, pgs) ==
    LET h0 == [mem |-> << >>, head |-> start, heap_end |-> start + heap_size,
               pages |-> pgs, trap |-> FALSE]
        h1 == SetSize(h0, start, heap_size)
        h2 == SetNext(h1, start, NULL)
        h3 == SetFree(h2, start, TRUE)
    IN  SetTier(h3, start, 255)

\* Mutant of malloc_scan: a block fits only if it is strictly larger.
RECURSIVE malloc_scan_strict(_, _, _)
malloc_scan_strict(m, current, total_size) ==
    IF current = NULL THEN NULL
    ELSE IF BFree(m, current) /\ BSize(m, current) > total_size THEN current
    ELSE malloc_scan_strict(m, BNext(m, current), total_size)

\* malloc's while loop: the first block from `current` that is free and large
\* enough, NULL when the list ends.
RECURSIVE malloc_scan(_, _, _)
malloc_scan(m, current, total_size) ==
    IF current = NULL THEN NULL
    ELSE IF BFree(m, current) /\ BSize(m, current) >= total_size THEN current
    ELSE malloc_scan(m, BNext(m, current), total_size)

malloc_total_size(size) ==
    (IF size > 1024 THEN AlignUp(size, 64) ELSE AlignUp(size, 8)) + HeaderSize

\* Mutant of malloc_take: the remainder keeps the size of the whole block.
malloc_take_remainder_size(h, current, total_size) ==
    LET split == BSize(h.mem, current) >= total_size + HeaderSize + 8
        new_block == current + total_size
        s1 == SetSize(h, new_block, BSize(h.mem, current))
        s2 == SetNext(s1, new_block, BNext(s1.mem, current))
        s3 == SetFree(s2, new_block, TRUE)
        s4 == SetTier(s3, new_block, Rd(s3.mem, current + 9))
        s5 == SetSize(s4, current, total_size)
        s6 == SetNext(s5, current, new_block)
        h1 == IF split THEN s6 ELSE h
    IN  SetFree(h1, current, FALSE)

\* Mutant of malloc_take: the split threshold forgets the payload minimum,
\* so a remainder of exactly one header is split off.
malloc_take_low_threshold(h, current, total_size) ==
    LET split == BSize(h.mem, current) >= total_size + 8
        new_block == current + total_size
        s1 == SetSize(h, new_block, BSize(h.mem, current) - total_size)
        s2 == SetNext(s1, new_block, BNext(s1.mem, current))
        s3 == SetFree(s2, new_block, TRUE)
        s4 == SetTier(s3, new_block, Rd(s3.mem, current + 9))
        s5 == SetSize(s4, current, total_size)
        s6 == SetNext(s5, current, new_block)
        h1 == IF split THEN s6 ELSE h
    IN  SetFree(h1, current, FALSE)

\* Mutant of malloc_take: the selected block is never split.
malloc_take_never_split(h, current, total_size) ==
    SetFree(h, current, FALSE)

\* The body of `if (*current).is_free && (*current).size >= total_size`.
malloc_take(h, current, total_size) ==
    LET split == BSize(h.mem, current) >= total_size + HeaderSize + 8
        new_block == current + total_size
        s1 == SetSize(h, new_block, BSize(h.mem, current) - total_size)
        s2 == SetNext(s1, new_block, BNext(s1.mem, current))
        s3 == SetFree(s2, new_block, TRUE)
        s4 == SetTier(s3, new_block, Rd(s3.mem, current + 9))
        s5 == SetSize(s4, current, total_size)
        s6 == SetNext(s5, current, new_block)
        h1 == IF split THEN s6 ELSE h
    IN  SetFree(h1, current, FALSE)

\* grow_heap's loop: the last block of the list, NULL for an empty list.
RECURSIVE grow_last(_, _)
grow_last(m, current) ==
    IF current # NULL /\ BNext(m, current) # NULL
    THEN grow_last(m, BNext(m, current))
    ELSE current

\* memory.grow(0, n) under the host's answers: `oracle` holds one answer per
\* call still to come, and the host never grows past MaxPages.
GrowGranted(pgs, n, oracle) ==
    /\ oracle # << >>
    /\ Head(oracle)
    /\ pgs + n <= MaxPages

RECURSIVE DefaultAllocator_malloc(_, _, _)
RECURSIVE DefaultAllocator_grow_heap(_, _, _)

\* Mutant of DefaultAllocator_grow_heap: the page count is rounded down.
DefaultAllocator_grow_heap_floor(h, size_needed, oracle) ==
    LET pages_needed == size_needed \div 65536
    IN  IF ~GrowGranted(h.pages, pages_needed, oracle)
        THEN [h |-> h, ret |-> NULL, grows |-> 0]
        ELSE
          LET new_block == h.heap_end
              new_block_size == pages_needed * 65536
              g0 == [h EXCEPT !.pages = @ + pages_needed,
                              !.heap_end = @ + new_block_size]
              g1 == SetSize(g0, new_block, new_block_size)
              g2 == SetNext(g1, new_block, NULL)
              g3 == SetFree(g2, new_block, TRUE)
              g4 == SetTier(g3, new_block, 255)
              current == grow_last(g4.mem, g4.head)
              g5 == IF current # NULL THEN SetNext(g4, current, new_block)
                    ELSE [g4 EXCEPT !.head = new_block]
              r == DefaultAllocator_malloc(g5, size_needed - HeaderSize,
                                           Tail(oracle))
          IN  [r EXCEPT !.grows = @ + 1]

\* Result: the allocator after the call, the pointer returned, and how many
\* times the call grew the region.
DefaultAllocator_malloc(h, size, oracle) ==
    LET total_size == malloc_total_size(size)
        current == malloc_scan(h.mem, h.head, total_size)
    IN  IF current # NULL
        THEN [h |-> malloc_take(h, current, total_size),
              ret |-> current + HeaderSize, grows |-> 0]
        ELSE DefaultAllocator_grow_heap(h, total_size, oracle)

DefaultAllocator_grow_heap(h, size_needed, oracle) ==
    LET pages_needed == (size_needed + 65535) \div 65536
    IN  IF ~GrowGranted(h.pages, pages_needed, oracle)
        THEN [h |-> h, ret |-> NULL, grows |-> 0]
        ELSE
          LET new_block == h.heap_end
              new_block_size == pages_needed * 65536
              g0 == [h EXCEPT !.pages = @ + pages_needed,
                              !.heap_end = @ + new_block_size]
              g1 == SetSize(g0, new_block, new_block_size)
              g2 == SetNext(g1, new_block, NULL)
              g3 == SetFree(g2, new_block, TRUE)
              g4 == SetTier(g3, new_block, 255)
              current == grow_last(g4.mem, g4.head)
              g5 == IF current # NULL THEN SetNext(g4, current, new_block)
                    ELSE [g4 EXCEPT !.head = new_block]
              r == DefaultAllocator_malloc(g5, size_needed - HeaderSize,
                                           Tail(oracle))
          IN  [r EXCEPT !.grows = @ + 1]

\* free's loop: the block whose next is `block`, NULL when there is none.
RECURSIVE free_prev(_, _, _)
free_prev(m, current, block) ==
    IF current # NULL /\ BNext(m, current) # block
    THEN free_prev(m, BNext(m, current), block)
    ELSE current

\* Mutant of DefaultAllocator_free: forward coalescing adds the size but
\* leaves the absorbed block linked.
DefaultAllocator_free_no_splice(h, ptr) ==
    IF ptr = NULL THEN h
    ELSE
      LET block == ptr - HeaderSize
          f1 == SetFree(h, block, TRUE)
          next_block == BNext(f1.mem, block)
          f2 == IF next_block # NULL /\ BFree(f1.mem, next_block)
                THEN SetSize(f1, block, BSize(f1.mem, block)
                                        + BSize(f1.mem, next_block))
                ELSE f1
          current == free_prev(f2.mem, f2.head, block)
      IN  IF current # NULL /\ BFree(f2.mem, current)
          THEN SetNext(SetSize(f2, current, BSize(f2.mem, current)
                                            + BSize(f2.mem, block)),
                       current, BNext(f2.mem, block))
          ELSE f2

\* Mutant of DefaultAllocator_free: no backward coalescing.
DefaultAllocator_free_forward_only(h, ptr) ==
    IF ptr = NULL THEN h
    ELSE
      LET block == ptr - HeaderSize
          f1 == SetFree(h, block, TRUE)
          next_block == BNext(f1.mem, block)
      IN  IF next_block # NULL /\ BFree(f1.mem, next_block)
          THEN SetNext(SetSize(f1, block, BSize(f1.mem, block)
                                          + BSize(f1.mem, next_block)),
                       block, BNext(f1.mem, next_block))
          ELSE f1

\* Mutant of DefaultAllocator_free: the block is not merged with a free
\* successor, only absorbed by a free predecessor.
DefaultAllocator_free_backward_only(h, ptr) ==
    IF ptr = NULL THEN h
    ELSE
      LET block == ptr - HeaderSize
          f1 == SetFree(h, block, TRUE)
          current == free_prev(f1.mem, f1.head, block)
      IN  IF current # NULL /\ BFree(f1.mem, current)
          THEN SetNext(SetSize(f1, current, BSize(f1.mem, current)
                                            + BSize(f1.mem, block)),
                       current, BNext(f1.mem, block))
          ELSE f1

DefaultAllocator_free(h, ptr) ==
    IF ptr = NULL THEN h
    ELSE
      LET block == ptr - HeaderSize
          f1 == SetFree(h, block, TRUE)
          next_block == BNext(f1.mem, block)
          f2 == IF next_block # NULL /\ BFree(f1.mem, next_block)
                THEN SetNext(SetSize(f1, block, BSize(f1.mem, block)
                                                 + BSize(f1.mem, next_block)),
                             block, BNext(f1.mem, next_block))
                ELSE f1
          current == free_prev(f2.mem, f2.head, block)
      IN  IF current # NULL /\ BFree(f2.mem, current)
          THEN SetNext(SetSize(f2, current, BSize(f2.mem, current)
                                            + BSize(f2.mem, block)),
                       current, BNext(f2.mem, block))
          ELSE f2

is_ptr_in_heap(h, ptr) == ptr >= heap_start /\ ptr < h.heap_end

\* ------------------------------------------------------------------- Arena
Tiers == {"Render", "Scene", "Entity"}

\* Tier::from_u8
Tier_from_u8(value) ==
    CASE value = 0 -> "Render"
      [] value = 1 -> "Scene"
      [] value = 2 -> "Entity"
      [] OTHER -> "None"

Arena_new(base, size) ==
    [base |-> base, size |-> size, current_offset |-> 0,
     high_water_mark |-> 0, total_allocated |-> 0]

\* Mutant of Arena_aligned_size: every tier aligns to 8 bytes.
Arena_aligned_size_all8(tier, size) == AlignUp(size, 8)

\* The match on self.tier at the top of Arena::allocate.
Arena_aligned_size(tier, size) ==
    CASE tier = "Render" -> AlignUp(size, 128)
      [] tier = "Scene" -> AlignUp(size, 64)
      [] tier = "Entity" -> AlignUp(size, 8)

\* Mutant of Arena_allocate: the new cursor is counted from 0.
Arena_allocate_restart(a, tier, size) ==
    LET aligned_size == Arena_aligned_size(tier, size)
    IN  IF a.current_offset + aligned_size > a.size
        THEN [arena |-> a, ok |-> FALSE, ptr |-> NULL, aligned |-> 0]
        ELSE [arena |-> [a EXCEPT !.current_offset = aligned_size,
                                  !.total_allocated = @ + aligned_size],
              ok |-> TRUE, ptr |-> a.base + a.current_offset,
              aligned |-> aligned_size]

\* Arena::allocate run by one caller with nobody else on the arena: the load,
\* the bound check and the compare-exchange succeed in one pass.
Arena_allocate(a, tier, size) ==
    LET aligned_size == Arena_aligned_size(tier, size)
        current_offset == a.current_offset
        new_offset == current_offset + aligned_size
    IN  IF current_offset + aligned_size > a.size
        THEN [arena |-> a, ok |-> FALSE, ptr |-> NULL, aligned |-> 0]
        ELSE [arena |-> [a EXCEPT
                           !.current_offset = new_offset,
                           !.high_water_mark =
                               IF new_offset > @ THEN new_offset ELSE @,
                           !.total_allocated = @ + aligned_size],
              ok |-> TRUE, ptr |-> a.base + current_offset,
              aligned |-> aligned_size]

\* Mutant of Arena_reset: the cursor goes back to the high-water mark.
Arena_reset_to_mark(a) == [a EXCEPT !.current_offset = a.high_water_mark]

Arena_reset(a) == [a EXCEPT !.current_offset = 0]

Arena_contains(a, ptr) == ptr >= a.base /\ ptr < a.base + a.size

Arena_usage(a) == a.current_offset
Arena_capacity(a) == a.size

\* Mutant of Arena_fast_compact: it reports success and keeps the cursor.
Arena_fast_compact_keep(a, preserve_bytes) ==
    [arena |-> a, ret |-> preserve_bytes <= a.current_offset]

\* Result: the arena after the call and the bool returned.
Arena_fast_compact(a, preserve_bytes) ==
    IF preserve_bytes > a.current_offset
    THEN [arena |-> a, ret |-> FALSE]
    ELSE [arena |-> [a EXCEPT !.current_offset = preserve_bytes],
          ret |-> TRUE]

Arena_get_stats(a) ==
    <<Arena_usage(a), Arena_capacity(a), a.high_water_mark,
      a.total_allocated>>

\* --------------------------------------------------------- TieredAllocator
\* The allocator as a value: [arena |-> tier -> Arena, pages, trap].
TieredAllocator_new(base, size, pgs) ==
    LET render_size == (size * 50) \div 100
        scene_size == (size * 30) \div 100
        entity_size == (size * 20) \div 100
        render_base == base
        scene_base == render_base + render_size
        entity_base == scene_base + scene_size
    IN  [arena |-> [t \in Tiers |->
                      CASE t = "Render" -> Arena_new(render_base, render_size)
                        [] t = "Scene" -> Arena_new(scene_base, scene_size)
                        [] t = "Entity" -> Arena_new(entity_base, entity_size)],
         pages |-> pgs, trap |-> FALSE]

\* Mutant of TieredAllocator_grow_heap: one page more than needed is asked
\* for.
TieredAllocator_grow_heap_spare(T, size_needed, tier, oracle) ==
    LET pages_needed == (size_needed + 65535) \div 65536 + 1
        new_memory_base == T.pages * 65536
    IN  IF ~GrowGranted(T.pages, pages_needed, oracle)
        THEN [T |-> T, ret |-> NULL]
        ELSE [T |-> [T EXCEPT
                       !.pages = @ + pages_needed,
                       !.arena[tier] = Arena_new(new_memory_base,
                                                 pages_needed * 65536)],
              ret |-> new_memory_base]

\* Result: the allocator after the call and the pointer returned (NULL when
\* memory.grow refused).
TieredAllocator_grow_heap(T, size_needed, tier, oracle) ==
    LET pages_needed == (size_needed + 65535) \div 65536
        old_pages == T.pages
        new_block_size == pages_needed * 65536
        new_memory_base == old_pages * 65536
    IN  IF ~GrowGranted(T.pages, pages_needed, oracle)
        THEN [T |-> T, ret |-> NULL]
        ELSE [T |-> [T EXCEPT
                       !.pages = @ + pages_needed,
                       !.arena[tier] = Arena_new(new_memory_base,
                                                 new_block_size)],
              ret |-> new_memory_base]

\* Mutant of TieredAllocator_reset_tier: every tier is reset.
TieredAllocator_reset_tier_all(T, tier) ==
    [T EXCEPT !.arena = [t \in Tiers |-> Arena_reset(@[t])]]

TieredAllocator_reset_tier(T, tier) ==
    [T EXCEPT !.arena[tier] = Arena_reset(@)]

\* Result: the allocator after the call, the pointer returned, whether the
\* region grew and whether the tier was recycled.
TieredAllocator_allocate(T, size, tier, oracle) ==
    LET first == Arena_allocate(T.arena[tier], tier, size)
    IN  IF first.ok
        THEN [T |-> [T EXCEPT !.arena[tier] = first.arena],
              ret |-> first.ptr, grew |-> FALSE, recycled |-> FALSE]
        ELSE
          LET g == TieredAllocator_grow_heap(T, size, tier, oracle)
          IN  IF g.ret # NULL
              THEN LET second == Arena_allocate(g.T.arena[tier], tier, size)
                   IN  IF second.ok
                       THEN [T |-> [g.T EXCEPT !.arena[tier] = second.arena],
                             ret |-> second.ptr, grew |-> TRUE,
                             recycled |-> FALSE]
                       ELSE [T |-> g.T, ret |-> NULL, grew |-> TRUE,
                             recycled |-> FALSE]
              ELSE
                LET current_usage == Arena_get_stats(T.arena[tier])[1]
                IN  IF current_usage > size
                    THEN LET R == TieredAllocator_reset_tier(T, tier)
                             third == Arena_allocate(R.arena[tier], tier, size)
                         IN  IF third.ok
                             THEN [T |-> [R EXCEPT !.arena[tier] = third.arena],
                                   ret |-> third.ptr, grew |-> FALSE,
                                   recycled |-> TRUE]
                             ELSE [T |-> R, ret |-> NULL, grew |-> FALSE,
                                   recycled |-> TRUE]
                    ELSE [T |-> T, ret |-> NULL, grew |-> FALSE,
                          recycled |-> FALSE]

\* Mutant of compact_bytes_to_copy: nothing is carried over.
compact_bytes_to_copy_none(current_offset, preserve_bytes) == 0

\* current_offset.min(preserve_bytes): the bytes the grow path carries over.
compact_bytes_to_copy(current_offset, preserve_bytes) ==
    IF current_offset < preserve_bytes THEN current_offset
    ELSE preserve_bytes

NoCopy == [src |-> NULL, dst |-> NULL, len |-> 0]

\* Result: the allocator after the call, the bool returned, whether the
\* region grew, and the bytes carried from the old arena into the new one
\* (len bytes from src to dst).  The two copy_nonoverlapping calls of the
\* grow path trap when they leave linear memory; a trap ends the call where
\* it stands.
TieredAllocator_fast_compact_tier(T, tier, preserve_bytes, oracle) ==
    LET a == T.arena[tier]
        current_offset == a.current_offset
        capacity == Arena_capacity(a)
    IN  IF preserve_bytes > current_offset
        THEN
          IF preserve_bytes > capacity
          THEN
            LET total_current_pages == T.pages
                additional_bytes_needed == preserve_bytes - current_offset
                additional_pages_needed ==
                    (additional_bytes_needed + 65535) \div 65536
                bytes_to_copy ==
                    compact_bytes_to_copy(current_offset, preserve_bytes)
                copies == current_offset > 0
                g == TieredAllocator_grow_heap(T, additional_bytes_needed,
                                               tier, oracle)
            IN  IF total_current_pages + additional_pages_needed > max_pages
                THEN [T |-> T, ret |-> FALSE, grew |-> FALSE, copy |-> NoCopy]
                ELSE IF copies /\ a.base + bytes_to_copy > T.pages * PageSize
                THEN [T |-> [T EXCEPT !.trap = TRUE], ret |-> FALSE,
                      grew |-> FALSE, copy |-> NoCopy]
                ELSE IF g.ret = NULL
                THEN [T |-> T, ret |-> FALSE, grew |-> FALSE, copy |-> NoCopy]
                ELSE IF copies /\ g.T.arena[tier].base + bytes_to_copy
                                      > g.T.pages * PageSize
                THEN [T |-> [g.T EXCEPT !.trap = TRUE], ret |-> FALSE,
                      grew |-> TRUE, copy |-> NoCopy]
                ELSE [T |-> [g.T EXCEPT
                               !.arena[tier].current_offset = preserve_bytes],
                      ret |-> TRUE, grew |-> TRUE,
                      copy |-> IF copies
                               THEN [src |-> a.base,
                                     dst |-> g.T.arena[tier].base,
                                     len |-> bytes_to_copy]
                               ELSE NoCopy]
          ELSE [T |-> [T EXCEPT !.arena[tier].current_offset = preserve_bytes],
                ret |-> TRUE, grew |-> FALSE, copy |-> NoCopy]
        ELSE
          LET c == Arena_fast_compact(a, preserve_bytes)
          IN  [T |-> [T EXCEPT !.arena[tier] = c.arena], ret |-> c.ret,
               grew |-> FALSE, copy |-> NoCopy]

TieredAllocator_tier_stats(T, tier) == Arena_get_stats(T.arena[tier])

TieredAllocator_is_ptr_in_arena(T, ptr) ==
    \E t \in Tiers : Arena_contains(T.arena[t], ptr)

\* ------------------------------------------------------------------ Walloc
\* The DefaultAllocator held by the facade, as a value, and back.
DA == [mem |-> mem, head |-> free_list_head, heap_end |-> heap_end,
       pages |-> pages, trap |-> trapped]

\* The block list reached from the head: the addresses, then the headers.
RECURSIVE Walk(_, _, _)
Walk(m, b, fuel) ==
    IF b = NULL \/ fuel = 0 THEN << >>
    ELSE <<b>> \o Walk(m, BNext(m, b), fuel - 1)

Fuel(m) == Cardinality(DOMAIN m) + 1

Blocks(h) ==
    LET w == Walk(h.mem, h.head, Fuel(h.mem))
    IN  [i \in 1..Len(w) |->
           [addr |-> w[i], size |-> BSize(h.mem, w[i]),
            free |-> BFree(h.mem, w[i])]]

\* Request sizes of the free-list allocator: the spec's scenario (100, 50,
\* 60) and one request no block of the initial heap can hold.
DSizes == {50, 60, 100, InitPages * PageSize}

Oracles == [1..MaxGrowCalls -> BOOLEAN]

NoCall == [op |-> "none"]

\* What the caller has seen of one tier.  `call` is its last call on the
\* tier (arguments, results, the arena before it); `first` is the offset of
\* the first allocation made in the tier's current arena (-1: none yet);
\* `raised` tells that fast_compact_tier raised that arena's cursor before
\* its first allocation; `peak` is the largest cursor the tier has had
\* after any call.
NoHist == [call |-> NoCall, first |-> -1, raised |-> FALSE, peak |-> 0]

MaxOf2(a, b) == IF a > b THEN a ELSE b

Callers == 1..NCallers
\* A caller of Arena::allocate before the call: its locals are unset.
Idle(t) == [pc |-> "idle", tier |-> t, size |-> 0, aligned_size |-> 0,
            current_offset |-> 0, new_offset |-> 0, hwm |-> 0, fails |-> 0,
            ret |-> NULL]

\* WEvent::new at clock reading `now`, with the Timer it starts: now is the
\* clock the timer reads, start the timer's start, call the last update call.
WEvent_new(now) ==
    [now |-> now, start |-> now, last_tick_time |-> 0,
     tick_interval_ms |-> 16, event_queue |-> << >>, panicked |-> FALSE,
     call |-> NoCall]

\* Walloc::new and Walloc::new_tiered read memory_size(0), a page count, as
\* the base pointer.
InitCommon ==
    /\ pages = InitPages
    /\ memory_base = InitPages
    /\ memory_size = InitPages * 65536
    /\ trapped = FALSE
    /\ live = {}
    /\ released = {}
    /\ hist = [t \in Tiers |-> NoHist]
    /\ rejected = NoCall
    /\ nops = 0
    /\ last = NoCall
    /\ wevent = WEvent_new(0)

\* Walloc::new
InitDefault ==
    LET h == DefaultAllocator_new(memory_base, InitPages * 65536, InitPages)
    IN  /\ InitCommon
        /\ caller = [c \in Callers |-> Idle("Entity")]
        /\ strategy = "Default"
        /\ mem = h.mem
        /\ free_list_head = h.head
        /\ heap_end = h.heap_end
        /\ arena = [t \in Tiers |-> Arena_new(NULL, 0)]

\* Walloc::allocate(size)
Allocate(size, oracle) ==
    /\ strategy = "Default"
    /\ ~trapped
    /\ LET r == DefaultAllocator_malloc(DA, size, oracle)
           ret == IF r.ret = NULL THEN 0 ELSE r.ret - memory_base
       IN  /\ mem' = r.h.mem
           /\ free_list_head' = r.h.head
           /\ heap_end' = r.h.heap_end
           /\ pages' = r.h.pages
           /\ trapped' = r.h.trap
           /\ memory_size' = IF r.h.trap THEN memory_size
                             ELSE r.h.pages * 65536
           /\ live' = IF r.ret = NULL \/ r.h.trap THEN live
                      ELSE live \cup {ret}
           /\ released' = IF r.ret = NULL \/ r.h.trap THEN released
                          ELSE released \ {ret}
           /\ last' = [op |-> "allocate", size |-> size, ret |-> ret,
                       ptr |-> r.ret, grows |-> r.grows,
                       pre |-> Blocks(DA), pre_end |-> heap_end,
                       pre_pages |-> pages, pre_live |-> live]
    /\ nops' = nops + 1
    /\ UNCHANGED <<caller, strategy, memory_base, arena, hist, rejected,
                   wevent>>

\* Mutant of Walloc_free: the pointer is not checked against the heap range.
Walloc_free_unchecked(strat, h, ar, offset) ==
    LET ptr == memory_base + offset
    IN  IF offset = 0 \/ strat # "Default" THEN [h |-> h, arena |-> ar]
        ELSE [h |-> DefaultAllocator_free(h, ptr), arena |-> ar]

\* Mutant of Walloc_free: in tiered mode it resets the arena holding the
\* pointer.
Walloc_free_tier_reset(strat, h, ar, offset) ==
    LET ptr == memory_base + offset
    IN  IF offset = 0 THEN [h |-> h, arena |-> ar]
        ELSE IF strat = "Default"
        THEN [h |-> IF is_ptr_in_heap(h, ptr)
                    THEN DefaultAllocator_free(h, ptr) ELSE h,
              arena |-> ar]
        ELSE [h |-> h,
              arena |-> [t \in Tiers |->
                           IF Arena_contains(ar[t], ptr)
                           THEN Arena_reset(ar[t]) ELSE ar[t]]]

\* Walloc::free as a function of the strategy, the free-list allocator h and
\* the arenas: only the default strategy validates and releases.
Walloc_free(strat, h, ar, offset) ==
    LET ptr == memory_base + offset
        is_valid == strat = "Default" /\ is_ptr_in_heap(h, ptr)
    IN  IF offset = 0 \/ ~is_valid THEN [h |-> h, arena |-> ar]
        ELSE [h |-> DefaultAllocator_free(h, ptr), arena |-> ar]

\* Walloc::free(offset)
Free(offset) ==
    /\ ~trapped
    /\ LET r == Walloc_free(strategy, DA, arena, offset)
       IN  /\ mem' = r.h.mem
           /\ free_list_head' = r.h.head
           /\ heap_end' = r.h.heap_end
           /\ trapped' = r.h.trap
           /\ arena' = r.arena
           /\ last' = [op |-> "free", offset |-> offset,
                       pre |-> Blocks(DA), pre_end |-> heap_end,
                       pre_live |-> live, pre_released |-> released,
                       pre_arena |-> arena]
    /\ live' = live \ {offset}
    /\ released' = IF offset \in live \cup released
                   THEN released \cup {offset} ELSE released
    /\ nops' = nops + 1
    /\ UNCHANGED <<caller, strategy, memory_base, pages, memory_size, hist,
                   rejected, wevent>>

\* Offsets handed to free by a caller that releases what it holds: the held
\* ones, 0, the end of the heap range and an offset beyond it.
FreeOffsets == live \cup {0, heap_end - memory_base, heap_end + 8}

\* At most MaxOps calls are followed.
NextDefault ==
    \/ /\ nops < MaxOps
       /\ \E size \in DSizes, oracle \in Oracles : Allocate(size, oracle)
    \/ /\ nops < MaxOps
       /\ \E offset \in FreeOffsets : Free(offset)

SpecDefault == InitDefault /\ [][NextDefault]_vars

\* ------------------------------------------------------ Walloc, tiered mode
\* The TieredAllocator held by the facade, as a value.
TA == [arena |-> arena, pages |-> pages, trap |-> trapped]

\* The capacity Walloc::new_tiered gives the Entity arena: 20% of the region.
EntityCapacity == (InitPages * PageSize * 20) \div 100

\* Request sizes, tier numbers (3 is not a tier) and preserve_bytes values.
\* EntityCapacity - 1 is a size below the Entity capacity whose aligned size
\* is above it.
TSizes == {10, 100, 8192, EntityCapacity - 1}
TierNumbers == {0, 1, 2, 3}
KVals == {128, EntityCapacity, 70000}
\* A tiered call asks memory.grow at most once.
TOracles == {<<TRUE>>, <<FALSE>>}

\* Walloc::new_tiered
InitTiered ==
    LET T == TieredAllocator_new(memory_base, InitPages * 65536, InitPages)
    IN  /\ InitCommon
        /\ caller = [c \in Callers |-> Idle("Entity")]
        /\ strategy = "Tiered"
        /\ mem = << >>
        /\ free_list_head = NULL
        /\ heap_end = NULL
        /\ arena = T.arena

\* Walloc::allocate_tiered(size, tier_number)
AllocateTiered(size, tier_number, oracle) ==
    /\ strategy = "Tiered"
    /\ ~trapped
    /\ nops < MaxTierOps
    /\ LET tier == IF Tier_from_u8(tier_number) = "None" THEN "Entity"
                   ELSE Tier_from_u8(tier_number)
           r == TieredAllocator_allocate(TA, size, tier, oracle)
           ret == IF r.ret = NULL THEN 0 ELSE r.ret - memory_base
           h == hist[tier]
       IN  /\ arena' = r.T.arena
           /\ pages' = r.T.pages
           /\ memory_size' = r.T.pages * 65536
           /\ hist' = [hist EXCEPT ![tier] =
                 [call |-> [op |-> "allocate_tiered", size |-> size,
                            tier_number |-> tier_number, ret |-> ret,
                            ptr |-> r.ret, grew |-> r.grew,
                            recycled |-> r.recycled, pre |-> arena[tier],
                            memory_size |-> r.T.pages * 65536],
                  first |-> IF r.grew
                            THEN (IF r.ret # NULL THEN ret ELSE -1)
                            ELSE IF r.ret # NULL /\ h.first = -1 THEN ret
                            ELSE h.first,
                  raised |-> IF r.grew THEN FALSE ELSE h.raised,
                  peak |-> MaxOf2(h.peak,
                                  r.T.arena[tier].current_offset)]]
    /\ nops' = nops + 1
    /\ UNCHANGED <<caller, strategy, memory_base, mem, free_list_head,
                   heap_end, trapped, live, released, rejected, last, wevent>>

\* Walloc::reset_tier(tier_number)
ResetTier(tier_number) ==
    /\ strategy = "Tiered"
    /\ ~trapped
    /\ nops < MaxTierOps
    /\ LET tier == Tier_from_u8(tier_number)
       IN  IF tier = "None"
           THEN /\ UNCHANGED <<arena, hist>>
                /\ rejected' = [op |-> "reset_tier",
                                tier_number |-> tier_number, ret |-> FALSE]
           ELSE /\ arena' = TieredAllocator_reset_tier(TA, tier).arena
                /\ hist' = [hist EXCEPT ![tier] =
                      [@ EXCEPT
                         !.call = [op |-> "reset_tier",
                                   tier_number |-> tier_number, ret |-> TRUE,
                                   pre |-> arena[tier]]]]
                /\ UNCHANGED rejected
    /\ nops' = nops + 1
    /\ UNCHANGED <<caller, strategy, memory_base, pages, memory_size, mem,
                   free_list_head, heap_end, trapped, live, released, last,
                   wevent>>

\* Walloc::fast_compact_tier(tier_number, preserve_bytes)
FastCompactTier(tier_number, preserve_bytes, oracle) ==
    /\ strategy = "Tiered"
    /\ ~trapped
    /\ nops < MaxTierOps
    /\ LET tier == Tier_from_u8(tier_number)
       IN  IF tier = "None"
           THEN /\ UNCHANGED <<arena, pages, trapped, hist>>
                /\ rejected' = [op |-> "fast_compact_tier",
                                tier_number |-> tier_number, ret |-> FALSE]
           ELSE LET r == TieredAllocator_fast_compact_tier(
                             TA, tier, preserve_bytes, oracle)
                IN  /\ arena' = r.T.arena
                    /\ pages' = r.T.pages
                    /\ trapped' = r.T.trap
                    /\ hist' = [hist EXCEPT ![tier] =
                          [call |-> [op |-> "fast_compact_tier",
                                     preserve_bytes |-> preserve_bytes,
                                     tier_number |-> tier_number,
                                     ret |-> r.ret, grew |-> r.grew,
                                     pre |-> arena[tier],
                                     pre_pages |-> pages, copy |-> r.copy,
                                     memory_size |-> memory_size],
                           first |-> IF r.grew THEN -1 ELSE hist[tier].first,
                           raised |->
                               IF r.grew THEN r.ret
                               ELSE IF /\ r.ret
                                       /\ hist[tier].first = -1
                                       /\ preserve_bytes
                                             > arena[tier].current_offset
                               THEN TRUE ELSE hist[tier].raised,
                           peak |-> MaxOf2(hist[tier].peak,
                                           r.T.arena[tier].current_offset)]]
                    /\ UNCHANGED rejected
    /\ nops' = nops + 1
    /\ UNCHANGED <<caller, strategy, memory_base, memory_size, mem,
                   free_list_head, heap_end, live, released, last, wevent>>

NextTiered ==
    \/ \E size \in TSizes, n \in TierNumbers, oracle \in TOracles :
          AllocateTiered(size, n, oracle)
    \/ \E n \in TierNumbers : ResetTier(n)
    \/ \E n \in TierNumbers, k \in KVals, oracle \in TOracles :
          FastCompactTier(n, k, oracle)

SpecTiered == InitTiered /\ [][NextTiered]_vars

\* ---------------------------------------------- free-list allocator: claims
RECURSIVE SumSizes(_)
SumSizes(bs) == IF bs = << >> THEN 0 ELSE Head(bs).size + SumSizes(Tail(bs))

\* What the last allocate call worked on: the total size it needed, the
\* block it handed out, and the size that block had when it was selected
\* (a block appended by growth is the whole grown range).
LastNeeded == malloc_total_size(last.size)
LastBlock == last.ptr - HeaderSize
LastSelSize ==
    IF last.grows = 0
    THEN LET i == CHOOSE i \in 1..Len(last.pre) : last.pre[i].addr = LastBlock
         IN  last.pre[i].size
    ELSE heap_end - last.pre_end
AllocatedOk == last.op = "allocate" /\ last.ptr # NULL /\ ~trapped

BlockOf(offset) == memory_base + offset - HeaderSize
AdjacentLive ==
    {p \in live \X live :
        BlockOf(p[1]) + BSize(mem, BlockOf(p[1])) = BlockOf(p[2])}
FreeBoth(h, o1, o2) ==
    DefaultAllocator_free(DefaultAllocator_free(h, memory_base + o1),
                          memory_base + o2)

\* C5: freeing two adjacent in-use blocks leaves one free block that spans
\* both (with the free blocks next to them), with no free neighbour left,
\* and the same list whichever is freed first.
C5_CoalesceSymmetric ==
    \A p \in AdjacentLive :
        LET ab == Blocks(FreeBoth(DA, p[1], p[2]))
            ba == Blocks(FreeBoth(DA, p[2], p[1]))
            lo == BlockOf(p[1])
            hi == BlockOf(p[2]) + BSize(mem, BlockOf(p[2]))
        IN  /\ ab = ba
            /\ \E i \in 1..Len(ab) :
                  /\ ab[i].free
                  /\ ab[i].addr <= lo
                  /\ ab[i].addr + ab[i].size >= hi
                  /\ i > 1 => ~ab[i - 1].free
                  /\ i < Len(ab) => ~ab[i + 1].free

\* C5 witness: two offsets whose blocks were adjacent have both been
\* released, the second by the last call, and one free block spans both.
C5_Witness ==
    /\ last.op = "free"
    /\ \E o \in released \ {last.offset} :
          \E i \in 1..(Len(last.pre) - 1) :
             /\ {last.pre[i].addr, last.pre[i + 1].addr}
                   = {BlockOf(o), BlockOf(last.offset)}
             /\ \E k \in {i, i + 1} :
                   last.pre[k].addr = BlockOf(o) /\ last.pre[k].free
             /\ \E k \in {i, i + 1} :
                   last.pre[k].addr = BlockOf(last.offset) /\ ~last.pre[k].free
             /\ \E j \in 1..Len(Blocks(DA)) :
                   /\ Blocks(DA)[j].free
                   /\ Blocks(DA)[j].addr <= last.pre[i].addr
                   /\ Blocks(DA)[j].addr + Blocks(DA)[j].size
                         >= last.pre[i + 1].addr + last.pre[i + 1].size

\* C6: a selected block of at least needed + header + 8 bytes is split into
\* an in-use block of exactly `needed` bytes followed by a new free block,
\* and the two sizes sum to the selected block's size.
C6_SplitExact ==
    (AllocatedOk /\ LastSelSize >= LastNeeded + HeaderSize + 8) =>
        LET b == LastBlock
            n == b + LastNeeded
        IN  /\ BSize(mem, b) = LastNeeded
            /\ ~BFree(mem, b)
            /\ BNext(mem, b) = n
            /\ BFree(mem, n)
            /\ BSize(mem, b) + BSize(mem, n) = LastSelSize
            /\ Len(Blocks(DA)) = Len(last.pre) + 1 + last.grows

\* C6 witness: an allocation that split a block of the list (no growth).
C6_Witness ==
    /\ AllocatedOk
    /\ last.grows = 0
    /\ Len(last.pre) >= 2
    /\ LastSelSize >= LastNeeded + HeaderSize + 8
    /\ BSize(mem, LastBlock) = LastNeeded
    /\ BFree(mem, LastBlock + LastNeeded)

\* The case of C7: the selected block fits but is too small to split.
NoSplitCase ==
    /\ AllocatedOk
    /\ LastSelSize >= LastNeeded
    /\ LastSelSize < LastNeeded + HeaderSize + 8

\* C7 as stated: without a split, no block is created and the in-use block
\* is no larger than `needed`.
C7_Original ==
    NoSplitCase =>
        /\ Len(Blocks(DA)) = Len(last.pre) + last.grows
        /\ BSize(mem, LastBlock) <= LastNeeded

\* C7 amended: without a split, no block is created and the in-use block is
\* the whole selected block: at least `needed` and less than
\* needed + header + 8 bytes.
C7_NoSplitKeepsBlock ==
    NoSplitCase =>
        /\ Len(Blocks(DA)) = Len(last.pre) + last.grows
        /\ ~BFree(mem, LastBlock)
        /\ BSize(mem, LastBlock) = LastSelSize
        /\ BSize(mem, LastBlock) >= LastNeeded
        /\ BSize(mem, LastBlock) < LastNeeded + HeaderSize + 8

\* C7 witness: an unsplit allocation whose block is larger than `needed`.
C7_Witness ==
    /\ NoSplitCase
    /\ BSize(mem, LastBlock) > LastNeeded
    /\ Len(Blocks(DA)) = Len(last.pre)

\* The blocks of the list before the last allocate call that could hold it.
LastFits ==
    {i \in 1..Len(last.pre) :
        last.pre[i].free /\ last.pre[i].size >= LastNeeded}
MinOf(S) == CHOOSE x \in S : \A y \in S : x <= y

\* The spec's scenario on a fresh heap: allocate(100) = O1, allocate(50) = O2,
\* release(O1).
Scenario_a100 ==
    DefaultAllocator_malloc(
        DefaultAllocator_new(memory_base, InitPages * 65536, InitPages),
        100, << >>)
Scenario_a50 == DefaultAllocator_malloc(Scenario_a100.h, 50, << >>)
Scenario_freed == DefaultAllocator_free(Scenario_a50.h, Scenario_a100.ret)
Scenario_O1 == Scenario_a100.ret - memory_base
Scenario_O2 == Scenario_a50.ret - memory_base
ScenarioReached ==
    /\ last.op = "allocate"
    /\ last.size = 60
    /\ nops = 4
    /\ last.pre = Blocks(Scenario_freed)
    /\ last.pre_live = {Scenario_O2}

\* C8: malloc returns the payload of the first block in list order that is
\* free and holds aligned size + header, and grows only when there is none;
\* after allocate(100) = O1, allocate(50), release(O1), allocate(60) returns
\* O1 without growing the region.
C8_FirstFit ==
    /\ last.op = "allocate" =>
          IF LastFits # {}
          THEN /\ last.ptr = last.pre[MinOf(LastFits)].addr + HeaderSize
               /\ last.grows = 0
               /\ pages = last.pre_pages
          ELSE last.ptr # NULL =>
                  /\ last.grows >= 1
                  /\ last.ptr = last.pre_end + HeaderSize
    /\ ScenarioReached =>
          /\ last.ret = Scenario_O1
          /\ last.grows = 0
          /\ pages = InitPages

\* C8 witness: the scenario's fourth call has returned O1 again, from a list
\* whose first block was free and whose later block was free too.
C8_Witness ==
    /\ ScenarioReached
    /\ last.ret = Scenario_O1
    /\ Cardinality(LastFits) >= 2
    /\ Scenario_O1 # Scenario_O2

\* -------------------------------------------------- tiered allocator: claims
TierAlign(t) ==
    CASE t = "Render" -> 128 [] t = "Scene" -> 64 [] t = "Entity" -> 8
\* The least multiple of a that is >= n.
RoundUp(n, a) == CHOOSE m \in n..(n + a - 1) : m % a = 0

\* C3 as stated: for every tier 0 <= usage() <= capacity() after every
\* sequence of allocate_tiered, reset_tier and fast_compact_tier calls.
C3_UsageWithinCapacity ==
    \A t \in Tiers :
        /\ 0 <= Arena_usage(arena[t])
        /\ Arena_usage(arena[t]) <= Arena_capacity(arena[t])

\* A successful allocation was the caller's last call on tier t.
AllocatedIn(t) ==
    /\ hist[t].call.op = "allocate_tiered"
    /\ hist[t].call.ptr # NULL

\* C9: on a fresh region allocate_tiered(100, Render) returns 0 and the next
\* allocate_tiered(10, Render) returns 128; the allocation that follows a
\* successful one in a tier, with no reset, compact or growth between them,
\* starts exactly the first request's size rounded up to the tier alignment
\* after it.
C9_ConsecutiveOffsets ==
    /\ (nops = 1 /\ AllocatedIn("Render") /\ hist["Render"].call.size = 100)
          => hist["Render"].call.ret = 0
    /\ ( /\ nops = 2
         /\ AllocatedIn("Render")
         /\ hist["Render"].call.size = 10
         /\ hist["Render"].call.pre.total_allocated = 128 )
          => hist["Render"].call.ret = 128
    /\ \A t \in Tiers :
          AllocatedIn(t) =>
             \A size \in TSizes, oracle \in TOracles :
                LET r == TieredAllocator_allocate(TA, size, t, oracle)
                IN  (r.ret # NULL /\ ~r.grew /\ ~r.recycled) =>
                       (r.ret - memory_base) - hist[t].call.ret
                          = RoundUp(hist[t].call.size, TierAlign(t))

\* C9 witness: the second Render allocation of a fresh region returned 128.
C9_Witness ==
    /\ nops = 2
    /\ AllocatedIn("Render")
    /\ hist["Render"].call.size = 10
    /\ hist["Render"].call.pre.total_allocated = 128
    /\ hist["Render"].call.pre.base = memory_base
    /\ hist["Render"].call.ret = 128

\* The offset allocate_tiered(size, t) would return now, -1 if it fails.
NextOffset(t, size, oracle) ==
    LET r == TieredAllocator_allocate(TA, size, t, oracle)
    IN  IF r.ret = NULL THEN -1 ELSE r.ret - memory_base

\* C10 as stated: after reset_tier(t) usage is 0 and the next allocation
\* that fits the capacity returns the tier's base offset, which is the
\* offset of the first allocation ever made in that arena.
C10_Original ==
    \A t \in Tiers :
        hist[t].call.op = "reset_tier" =>
            /\ Arena_usage(arena[t]) = 0
            /\ \A size \in TSizes, oracle \in TOracles :
                  Arena_aligned_size(t, size) <= Arena_capacity(arena[t]) =>
                     /\ NextOffset(t, size, oracle) = arena[t].base - memory_base
                     /\ hist[t].first # -1 =>
                           NextOffset(t, size, oracle) = hist[t].first

\* C10 amended: after reset_tier(t) usage is 0 and the next allocation that
\* fits the capacity returns the tier's base offset; that is the offset of
\* the first allocation made in that arena when no fast_compact_tier raised
\* the arena's cursor before that allocation.
C10_ResetReturnsBase ==
    \A t \in Tiers :
        hist[t].call.op = "reset_tier" =>
            /\ Arena_usage(arena[t]) = 0
            /\ \A size \in TSizes, oracle \in TOracles :
                  Arena_aligned_size(t, size) <= Arena_capacity(arena[t]) =>
                     /\ NextOffset(t, size, oracle) = arena[t].base - memory_base
                     /\ (hist[t].first # -1 /\ ~hist[t].raised) =>
                           NextOffset(t, size, oracle) = hist[t].first

\* C10 witness: Render was reset after allocations; the next allocation of 10
\* bytes returns offset 0 again.
C10_Witness ==
    /\ hist["Render"].call.op = "reset_tier"
    /\ hist["Render"].call.pre.current_offset > 0
    /\ hist["Render"].first = 0
    /\ ~hist["Render"].raised
    /\ Arena_usage(arena["Render"]) = 0
    /\ NextOffset("Render", 10, <<TRUE>>) = 0

\* ------------------------------------------- Arena::allocate, step by step
\* N callers share the arena of one tier; each atomic access is one step.
CSizes == {100, 8192}

\* Mutant of compare_exchange: the store happens whatever the cell holds.
compare_exchange_blind(cell, expected, new) ==
    [ok |-> TRUE, value |-> new, actual |-> cell]

\* Mutant of compare_exchange: it may fail although the cell holds the
\* expected value (as compare_exchange_weak may).
compare_exchange_spurious(cell, expected, new) ==
    [ok |-> FALSE, value |-> cell, actual |-> cell]

\* AtomicUsize::compare_exchange(current, new, ..)
compare_exchange(cell, expected, new) ==
    [ok |-> cell = expected,
     value |-> IF cell = expected THEN new ELSE cell,
     actual |-> cell]

\* The arenas of Walloc::new_tiered, N callers about to allocate in one tier.
InitConc ==
    LET T == TieredAllocator_new(memory_base, InitPages * 65536, InitPages)
    IN  /\ InitCommon
        /\ \E t \in Tiers : caller = [c \in Callers |-> Idle(t)]
        /\ strategy = "Tiered"
        /\ mem = << >>
        /\ free_list_head = NULL
        /\ heap_end = NULL
        /\ arena = T.arena

ConcFrame ==
    UNCHANGED <<strategy, memory_base, pages, memory_size, mem, free_list_head,
                heap_end, trapped, live, released, hist, rejected, nops, last,
                wevent>>

\* Entry: the size is aligned and the cursor is loaded.
ArenaLoad(c, size) ==
    LET t == caller[c].tier
    IN  /\ caller[c].pc = "idle"
        /\ caller' = [caller EXCEPT ![c] =
              [@ EXCEPT !.pc = "cas",
                        !.size = size,
                        !.aligned_size = Arena_aligned_size(t, size),
                        !.current_offset = arena[t].current_offset]]
        /\ UNCHANGED arena
        /\ ConcFrame

\* One turn of the loop: the space check, then the compare_exchange.
ArenaCas(c) ==
    LET t == caller[c].tier
        me == caller[c]
        new_offset == me.current_offset + me.aligned_size
        x == compare_exchange(arena[t].current_offset,
                              me.current_offset, new_offset)
    IN  /\ me.pc = "cas"
        /\ IF me.current_offset + me.aligned_size > arena[t].size
           THEN /\ caller' = [caller EXCEPT ![c] =
                      [@ EXCEPT !.pc = "done", !.ret = NULL]]
                /\ UNCHANGED arena
           ELSE /\ arena' = [arena EXCEPT ![t].current_offset = x.value]
                /\ caller' = [caller EXCEPT ![c] =
                      IF x.ok
                      THEN [@ EXCEPT !.pc = "hwm_load",
                                     !.new_offset = new_offset]
                      ELSE [@ EXCEPT !.current_offset = x.actual,
                                     !.fails = @ + 1]]
        /\ ConcFrame

\* high_water_mark.load and the comparison with new_offset.
ArenaHwmLoad(c) ==
    LET t == caller[c].tier
    IN  /\ caller[c].pc = "hwm_load"
        /\ caller' = [caller EXCEPT ![c] =
              [@ EXCEPT !.hwm = arena[t].high_water_mark,
                        !.pc = IF caller[c].new_offset
                                    > arena[t].high_water_mark
                               THEN "hwm_store" ELSE "add"]]
        /\ UNCHANGED arena
        /\ ConcFrame

\* high_water_mark.store(new_offset)
ArenaHwmStore(c) ==
    LET t == caller[c].tier
    IN  /\ caller[c].pc = "hwm_store"
        /\ arena' = [arena EXCEPT ![t].high_water_mark = caller[c].new_offset]
        /\ caller' = [caller EXCEPT ![c].pc = "add"]
        /\ ConcFrame

\* total_allocated.fetch_add(aligned_size) and the return of the pointer.
ArenaAdd(c) ==
    LET t == caller[c].tier
    IN  /\ caller[c].pc = "add"
        /\ arena' = [arena EXCEPT ![t].total_allocated =
                                      @ + caller[c].aligned_size]
        /\ caller' = [caller EXCEPT ![c] =
              [@ EXCEPT !.pc = "done",
                        !.ret = arena[t].base + caller[c].current_offset]]
        /\ ConcFrame

NextConc ==
    \/ \E c \in Callers, size \in CSizes : ArenaLoad(c, size)
    \/ \E c \in Callers : ArenaCas(c)
    \/ \E c \in Callers : ArenaHwmLoad(c)
    \/ \E c \in Callers : ArenaHwmStore(c)
    \/ \E c \in Callers : ArenaAdd(c)

SpecConc == InitConc /\ [][NextConc]_vars

\* ------------------------------------------------- concurrent arena: claims
\* The caller's compare_exchange succeeded: it owns a range.
Reserved(c) ==
    \/ caller[c].pc \in {"hwm_load", "hwm_store", "add"}
    \/ caller[c].pc = "done" /\ caller[c].ret # NULL
RangeLo(c) == caller[c].current_offset
RangeHi(c) == caller[c].current_offset + caller[c].aligned_size

\* C4: under every interleaving of N callers of Arena::allocate on one arena,
\* each successful call's range [offset, offset + aligned_size) lies inside
\* [0, capacity) and is disjoint from every other successful call's range.
C4_RangesDisjoint ==
    \A c \in Callers :
        Reserved(c) =>
            /\ 0 <= RangeLo(c)
            /\ RangeLo(c) < RangeHi(c)
            /\ RangeHi(c) <= Arena_capacity(arena[caller[c].tier])
            /\ caller[c].pc = "done" =>
                  caller[c].ret = arena[caller[c].tier].base + RangeLo(c)
            /\ \A d \in Callers \ {c} :
                  Reserved(d) =>
                     \/ RangeHi(c) <= RangeLo(d)
                     \/ RangeHi(d) <= RangeLo(c)

\* C4 witness: two callers raced, one lost a compare_exchange and retried,
\* and both calls returned successfully.
C4_Witness ==
    \E c, d \in Callers :
        /\ c # d
        /\ caller[c].pc = "done" /\ caller[c].ret # NULL
        /\ caller[d].pc = "done" /\ caller[d].ret # NULL
        /\ caller[d].fails > 0

\* ------------------------------------------- tiered allocator: compaction
\* fast_compact_tier was the caller's last call on tier t.
CompactedIn(t) == hist[t].call.op = "fast_compact_tier"

\* C11: fast_compact_tier(t, K) with K <= usage(t) returns true and leaves
\* usage(t) = K, and the next allocation in t that succeeds without growth
\* begins at tier-relative offset K.
C11_CompactKeepsPrefix ==
    \A t \in Tiers :
        ( /\ CompactedIn(t)
          /\ hist[t].call.preserve_bytes <= Arena_usage(hist[t].call.pre) )
        => /\ hist[t].call.ret
           /\ Arena_usage(arena[t]) = hist[t].call.preserve_bytes
           /\ \A size \in TSizes, oracle \in TOracles :
                 LET r == TieredAllocator_allocate(TA, size, t, oracle)
                 IN  (r.ret # NULL /\ ~r.grew /\ ~r.recycled) =>
                        r.ret - arena[t].base = hist[t].call.preserve_bytes

\* C11 witness: a tier holding more than K bytes was compacted to K, and an
\* allocation of 10 bytes would now start at K.
C11_Witness ==
    \E t \in Tiers :
        /\ CompactedIn(t)
        /\ hist[t].call.preserve_bytes > 0
        /\ hist[t].call.preserve_bytes < Arena_usage(hist[t].call.pre)
        /\ Arena_usage(arena[t]) = hist[t].call.preserve_bytes
        /\ TieredAllocator_allocate(TA, 10, t, <<TRUE>>).ret
              = arena[t].base + hist[t].call.preserve_bytes

\* C12 as stated: fast_compact_tier(t, K) with usage(t) < K <= capacity(t)
\* returns false and leaves the cursor unchanged.
C12_RaiseRefused ==
    \A t \in Tiers :
        ( /\ CompactedIn(t)
          /\ hist[t].call.preserve_bytes > Arena_usage(hist[t].call.pre)
          /\ hist[t].call.preserve_bytes <= Arena_capacity(hist[t].call.pre) )
        => /\ ~hist[t].call.ret
           /\ Arena_usage(arena[t]) = Arena_usage(hist[t].call.pre)

\* ------------------------------------------- tiered allocator: statistics
\* C13 as stated: the high_water_mark and total_allocated that tier_stats
\* reports never decrease in any step, growth included.
C13_StatsMonotonic ==
    [][\A t \in Tiers :
          /\ TieredAllocator_tier_stats(TA, t)[3]'
                >= TieredAllocator_tier_stats(TA, t)[3]
          /\ TieredAllocator_tier_stats(TA, t)[4]'
                >= TieredAllocator_tier_stats(TA, t)[4]]_vars

\* C14 as stated: after every tier operation the tier's high_water_mark is
\* the largest cursor value the tier has had.
C14_MarkIsPeak ==
    \A t \in Tiers :
        TieredAllocator_tier_stats(TA, t)[3] = hist[t].peak

\* ------------------------------------------------ tiered allocator: cursor
\* The step lowers the cursor of tier t.
UsageDrops(t) == Arena_usage(arena[t])' < Arena_usage(arena[t])
\* The step is a call on tier t.
CallOn(t) == hist'[t].call.op # "none" /\ hist'[t].call.pre = arena[t]

\* C15 as stated: only reset_tier and fast_compact_tier of a tier lower its
\* cursor; every other step leaves it equal or larger.
C15_Original ==
    [][\A t \in Tiers :
          UsageDrops(t) =>
             /\ CallOn(t)
             /\ hist'[t].call.op \in {"reset_tier", "fast_compact_tier"}]_vars

\* C15 amended: a tier's cursor is lowered only by reset_tier or
\* fast_compact_tier of that tier, or by an allocate_tiered in that tier
\* whose first attempt fails and which then rebuilds the arena over grown
\* memory or recycles the tier; every other step leaves it equal or larger.
C15_CursorDrops ==
    [][\A t \in Tiers :
          UsageDrops(t) =>
             /\ CallOn(t)
             /\ \/ hist'[t].call.op \in {"reset_tier", "fast_compact_tier"}
                \/ /\ hist'[t].call.op = "allocate_tiered"
                   /\ hist'[t].call.grew \/ hist'[t].call.recycled]_vars

\* C15 witness: an allocation grew the region and left the tier's cursor
\* below what it was.
C15_Witness ==
    \E t \in Tiers :
        /\ AllocatedIn(t)
        /\ hist[t].call.grew
        /\ Arena_usage(hist[t].call.pre) <= Arena_capacity(hist[t].call.pre)
        /\ Arena_usage(arena[t]) < Arena_usage(hist[t].call.pre)

\* ------------------------------------------------- facade: failure sentinel
\* C16 as stated: offset 0 returned by allocate or allocate_tiered always
\* means failure; no successful allocation returns offset 0.
C16_ZeroMeansFailure ==
    /\ (last.op = "allocate" /\ last.ptr # NULL) => last.ret # 0
    /\ \A t \in Tiers : AllocatedIn(t) => hist[t].call.ret # 0

\* ----------------------------------------------------- facade: byte access
\* A usize of the wasm32 target: 32 bits, kept as two 16-bit halves.
Word(hi, lo) == [hi |-> hi, lo |-> lo]
ToWord(n) == Word(n \div 65536, n % 65536)

\* usize addition: the wrapped sum and whether the true sum left the word.
usize_add(a, b) ==
    LET lo == a.lo + b.lo
        hi == a.hi + b.hi + (lo \div 65536)
    IN  [sum |-> Word(hi % 65536, lo % 65536), overflow |-> hi >= 65536]

usize_gt(a, b) == a.hi > b.hi \/ (a.hi = b.hi /\ a.lo > b.lo)

\* `if offset + length > self.memory_size { return Err(..) }`: a debug build
\* panics on an overflowing addition, a release build wraps.
check_bounds(offset, length, size, build) ==
    LET s == usize_add(offset, length)
    IN  IF s.overflow /\ build = "debug" THEN "Panic"
        ELSE IF usize_gt(s.sum, size) THEN "OutOfBounds"
        ELSE "Pass"

\* The slice [memory_base + offset, + length) lies in linear memory.
slice_in_memory(offset, length, pgs) ==
    LET e == usize_add(usize_add(ToWord(memory_base), offset).sum, length)
        b == usize_add(ToWord(memory_base), offset)
    IN  /\ ~b.overflow
        /\ ~e.overflow
        /\ ~usize_gt(e.sum, Word(pgs, 0))

\* What an access past the check does: it touches exactly the slice when
\* the slice lies in linear memory; otherwise the behaviour is undefined and
\* the call traps or touches part of the slice.
access_outcomes(offset, length, pgs) ==
    IF slice_in_memory(offset, length, pgs) THEN {"Ok"}
    ELSE {"Trap", "Partial"}

Builds == {"debug", "release"}
\* Offsets and lengths: small ones, the region size and its neighbours, and
\* the largest words.
WordVals ==
    {Word(0, 0), Word(0, 1), Word(0, 100),
     Word(InitPages - 1, 65535), Word(InitPages, 0), Word(InitPages, 1),
     Word(65535, 65535)}

\* The results a call can have once the arguments are known.
access_results(offset, length, size, pgs, build) ==
    LET c == check_bounds(offset, length, ToWord(size), build)
    IN  IF c = "Pass" THEN access_outcomes(offset, length, pgs) ELSE {c}

\* Walloc::get_memory_view(offset, length)
GetMemoryView(offset, length, build) ==
    /\ ~trapped
    /\ \E out \in access_results(offset, length, memory_size, pages, build) :
          /\ last' = [op |-> "get_memory_view", offset |-> offset,
                      length |-> length, ret |-> out, size |-> memory_size]
          /\ trapped' = (out \in {"Panic", "Trap"})
    /\ UNCHANGED <<caller, strategy, memory_base, pages, memory_size, mem,
                   free_list_head, heap_end, arena, live, released, hist,
                   rejected, nops, wevent>>

\* Walloc::copy_from_js(offset, data), data_len being data.length()
CopyFromJs(offset, data_len, build) ==
    /\ ~trapped
    /\ \E out \in access_results(offset, data_len, memory_size, pages, build) :
          /\ last' = [op |-> "copy_from_js", offset |-> offset,
                      length |-> data_len, ret |-> out, size |-> memory_size]
          /\ trapped' = (out \in {"Panic", "Trap"})
    /\ UNCHANGED <<caller, strategy, memory_base, pages, memory_size, mem,
                   free_list_head, heap_end, arena, live, released, hist,
                   rejected, nops, wevent>>

InitAccess == InitDefault \/ InitTiered

NextAccess ==
    \/ \E o \in WordVals, l \in WordVals, b \in Builds :
          GetMemoryView(o, l, b)
    \/ \E o \in WordVals, l \in WordVals, b \in Builds :
          CopyFromJs(o, l, b)

SpecAccess == InitAccess /\ [][NextAccess]_vars

\* The last call was a read or a write of bytes.
Accessed == last.op \in {"get_memory_view", "copy_from_js"}

\* offset + length, as numbers, exceeds size.
Exceeds(offset, length, size) ==
    LET lo == offset.lo + length.lo
        hi == offset.hi + length.hi + (lo \div 65536)
    IN  \/ hi > size \div 65536
        \/ hi = size \div 65536 /\ lo % 65536 > size % 65536

\* C17 as stated: whenever offset + length exceeds the region size, for
\* every pair of words, the call returns the out-of-bounds error and touches
\* no byte.
C17_OutOfBoundsRejected ==
    (Accessed /\ Exceeds(last.offset, last.length, last.size))
        => last.ret = "OutOfBounds"

\* C18 as stated: after every public operation that can grow the region
\* the size the facade checks accesses against is the region's current
\* size, so the last byte of the grown region can be read.
C18_SizeIsCurrent ==
    ~trapped =>
        /\ memory_size = pages * PageSize
        /\ check_bounds(ToWord(pages * PageSize - 1), Word(0, 1),
                        ToWord(memory_size), "release") = "Pass"

\* ------------------------------------------ tiered allocator: growth policy
\* The number of 64 KiB pages that hold size bytes.
PagesFor(size) ==
    IF size % 65536 = 0 THEN size \div 65536 ELSE size \div 65536 + 1

\* C19: when the tier's arena cannot satisfy allocate_tiered(size, t) and
\* the region can grow, the region grows by exactly ceil(size / 65536)
\* pages, the tier's arena is rebuilt over exactly the added range, and the
\* retried allocation succeeds and returns the start of that range.
C19_GrowthExact ==
    /\ \A t \in Tiers, size \in TSizes, oracle \in TOracles :
          LET r == TieredAllocator_allocate(TA, size, t, oracle)
              n == PagesFor(size)
          IN  ( /\ ~trapped
                /\ ~Arena_allocate(arena[t], t, size).ok
                /\ GrowGranted(pages, n, oracle) )
              => /\ r.grew
                 /\ r.T.pages = pages + n
                 /\ r.T.arena[t].base = pages * 65536
                 /\ r.T.arena[t].size = n * 65536
                 /\ r.ret = pages * 65536
                 /\ Arena_usage(r.T.arena[t]) = RoundUp(size, TierAlign(t))
                 /\ \A u \in Tiers \ {t} : r.T.arena[u] = arena[u]
    /\ \A t \in Tiers :
          (hist[t].call.op = "allocate_tiered" /\ hist[t].call.grew)
          => /\ hist[t].call.ptr = arena[t].base
             /\ hist[t].call.ret = arena[t].base - memory_base
             /\ arena[t].base % 65536 = 0
             /\ arena[t].size = PagesFor(hist[t].call.size) * 65536

\* C19 witness: an allocation that did not fit its tier grew the region and
\* returned the start of the new range.
C19_Witness ==
    \E t \in Tiers :
        /\ AllocatedIn(t)
        /\ hist[t].call.grew
        /\ Arena_usage(hist[t].call.pre) > 0
        /\ hist[t].call.memory_size = hist[t].call.ptr + arena[t].size
        /\ hist[t].call.ptr = arena[t].base

\* The last call on tier t was an allocation whose first attempt failed,
\* whose growth was refused, and which found usage above the request.
RecycleCase(t) ==
    /\ hist[t].call.op = "allocate_tiered"
    /\ ~Arena_allocate(hist[t].call.pre, t, hist[t].call.size).ok
    /\ ~hist[t].call.grew
    /\ Arena_usage(hist[t].call.pre) > hist[t].call.size

\* C20 as stated: when the arena cannot satisfy the request, growth is
\* refused and usage exceeds the requested size, the tier is reset and the
\* retried allocation succeeds at the tier's base, leaving usage equal to
\* the aligned request size.
C20_RecycleSucceeds ==
    \A t \in Tiers :
        RecycleCase(t) =>
            /\ hist[t].call.recycled
            /\ hist[t].call.ptr = arena[t].base
            /\ hist[t].call.ret = arena[t].base - memory_base
            /\ Arena_usage(arena[t])
                  = RoundUp(hist[t].call.size, TierAlign(t))

\* ------------------------------------- free-list allocator, any word as size
\* w & !(a - 1) for a power of two a <= 65536.
word_mask(w, a) == Word(w.hi, w.lo - (w.lo % a))
FromWord(w) == w.hi * 65536 + w.lo
\* Words below 2^30: every block size and address of the model is one.
FitsInt(w) == w.hi < 16384

\* malloc's aligned_size and total_size as the target computes them: a debug
\* build panics on an overflowing addition, a release build wraps.
malloc_sizes(size, build) ==
    LET big == usize_gt(size, Word(0, 1024))
        up == usize_add(size, Word(0, IF big THEN 63 ELSE 7))
        aligned_size == word_mask(up.sum, IF big THEN 64 ELSE 8)
        total == usize_add(aligned_size, Word(0, HeaderSize))
    IN  [panic |-> build = "debug" /\ (up.overflow \/ total.overflow),
         aligned_size |-> aligned_size, total_size |-> total.sum]

\* grow_heap for a size_needed of 2^30 bytes or more.  The page count is
\* (size_needed + 65535) / 65536 in word arithmetic.  When the addition wraps,
\* the count is 0: memory.grow(0, 0) changes nothing, the "new" block header
\* is stored at heap_end, and were that store to succeed the retry would find
\* the same list and recurse without end: the call cannot return.  When it
\* does not wrap, the count is at least 16384 pages.
DefaultAllocator_grow_heap_word(h, size_needed, oracle, build) ==
    LET up == usize_add(size_needed, Word(0, 65535))
        pages_needed == up.sum.hi
    IN  IF up.overflow /\ build = "debug"
        THEN [h |-> h, ret |-> NULL, grows |-> 0, panic |-> TRUE]
        ELSE IF ~GrowGranted(h.pages, pages_needed, oracle)
        THEN [h |-> h, ret |-> NULL, grows |-> 0, panic |-> FALSE]
        ELSE [h |-> [SetSize(h, h.heap_end, pages_needed * 65536)
                        EXCEPT !.trap = TRUE],
              ret |-> NULL, grows |-> 1, panic |-> FALSE]

\* malloc for any word.  After total_size is known, malloc depends on size
\* only through total_size, and malloc(aligned_size) has the same total_size.
DefaultAllocator_malloc_word(h, size, oracle, build) ==
    LET s == malloc_sizes(size, build)
    IN  IF s.panic
        THEN [h |-> h, ret |-> NULL, grows |-> 0, panic |-> TRUE]
        ELSE IF FitsInt(s.total_size)
        THEN LET r == DefaultAllocator_malloc(h, FromWord(s.aligned_size),
                                              oracle)
             IN  [h |-> r.h, ret |-> r.ret, grows |-> r.grows,
                  panic |-> FALSE]
        ELSE DefaultAllocator_grow_heap_word(h, s.total_size, oracle, build)

\* Request sizes as words: two ordinary ones, one region size (growth), 2^31,
\* the largest multiple of 64, and the largest word.
WideSizes ==
    {Word(0, 50), Word(0, 100), Word(InitPages, 0), Word(32768, 0),
     Word(65535, 65472), Word(65535, 65535)}

\* Walloc::allocate(size), size being any word
AllocateWord(size, oracle, build) ==
    /\ strategy = "Default"
    /\ ~trapped
    /\ LET r == DefaultAllocator_malloc_word(DA, size, oracle, build)
           aborted == r.panic \/ r.h.trap
           ret == IF r.ret = NULL THEN 0 ELSE r.ret - memory_base
       IN  /\ mem' = r.h.mem
           /\ free_list_head' = r.h.head
           /\ heap_end' = r.h.heap_end
           /\ pages' = r.h.pages
           /\ trapped' = aborted
           /\ memory_size' = IF aborted THEN memory_size
                             ELSE r.h.pages * 65536
           /\ live' = IF r.ret = NULL \/ aborted THEN live
                      ELSE live \cup {ret}
           /\ released' = IF r.ret = NULL \/ aborted THEN released
                          ELSE released \ {ret}
           /\ last' = [op |-> "allocate", size |-> size, build |-> build,
                       outcome |-> IF r.panic THEN "Panic"
                                   ELSE IF r.h.trap THEN "Trap"
                                   ELSE "Returned",
                       ret |-> ret, ptr |-> r.ret, grows |-> r.grows,
                       pre |-> Blocks(DA), pre_end |-> heap_end,
                       pre_pages |-> pages, pre_live |-> live]
    /\ nops' = nops + 1
    /\ UNCHANGED <<caller, strategy, memory_base, arena, hist, rejected,
                   wevent>>

NextWord ==
    \/ /\ nops < MaxOps
       /\ \E size \in WideSizes, oracle \in Oracles, build \in Builds :
             AllocateWord(size, oracle, build)
    \/ /\ nops < MaxOps
       /\ \E offset \in live : Free(offset)

SpecWord == InitDefault /\ [][NextWord]_vars

\* C21 as stated: allocate never aborts or panics, whatever the size: every
\* call returns, and a call that obtained no block returns 0.
C21_NeverAborts ==
    last.op = "allocate" =>
        /\ last.outcome = "Returned"
        /\ last.ptr = NULL => last.ret = 0

\* ------------------------------------------------ facade: tier identifiers
\* C22 as stated: a tiered call with an identifier other than 0, 1 or 2 acts
\* on the Entity tier: it is recorded as a call on Entity, and no such call
\* is turned away with `false` and no effect.
C22_InvalidTierIsEntity ==
    /\ \A t \in Tiers :
          (hist[t].call.op # "none" /\ hist[t].call.tier_number \notin {0, 1, 2})
              => t = "Entity"
    /\ rejected.op \in {"reset_tier", "fast_compact_tier"} => rejected.ret

\* ------------------------------------------------ facade: release of offsets
\* The offsets free must ignore in default mode: 0, and those at or beyond
\* the end of the heap range.
OutsideHeap(offset, end) == offset = 0 \/ offset >= end - memory_base

\* C23: free(0) and free of an offset at or beyond the end of the heap range
\* change nothing: after such a call the block list is the one before it, and
\* in every state such a call would leave the allocator and its memory as
\* they are.
C23_OutsideFreeNoOp ==
    /\ (last.op = "free" /\ OutsideHeap(last.offset, last.pre_end))
          => (Blocks(DA) = last.pre /\ heap_end = last.pre_end /\ ~trapped)
    /\ \A o \in {0, heap_end - memory_base, heap_end + 8} :
          Walloc_free(strategy, DA, arena, o).h = DA

\* C23 witness: a list with an in-use and a free block, and the last call
\* released the offset at the end of the heap range, after an earlier free(0).
C23_Witness ==
    /\ last.op = "free"
    /\ last.offset = last.pre_end - memory_base
    /\ live # {}
    /\ \E i \in 1..Len(last.pre) : last.pre[i].free
    /\ nops >= 3

\* A caller that also releases offsets it released before, followed for
\* MaxMisuseOps calls.
NextMisuse ==
    \/ /\ nops < MaxMisuseOps
       /\ \E size \in {50, 60}, oracle \in Oracles : Allocate(size, oracle)
    \/ /\ nops < MaxMisuseOps
       /\ \E offset \in live \cup released : Free(offset)

SpecMisuse == InitDefault /\ [][NextMisuse]_vars

\* C24: releasing an offset that was released and not returned since changes
\* nothing in the block list: after such a call the list is the one before
\* it, and in every state such a call would leave the list as it is.
C24_DoubleFreeNoOp ==
    /\ (last.op = "free" /\ last.offset \in last.pre_released)
          => (Blocks(DA) = last.pre /\ ~trapped)
    /\ \A o \in released :
          LET h == Walloc_free(strategy, DA, arena, o).h
          IN  Blocks(h) = Blocks(DA) /\ ~h.trap

\* Offsets inside the arenas: each arena's first byte and a later one.
ArenaOffsets ==
    {arena[t].base - memory_base + d : t \in Tiers, d \in {0, 128}}

\* Tiered mode with release calls.
NextRelease ==
    \/ \E size \in {100, 8192}, n \in {0, 1, 2}, oracle \in TOracles :
          AllocateTiered(size, n, oracle)
    \/ /\ nops < MaxOps
       /\ \E offset \in ArenaOffsets : Free(offset)

SpecRelease == InitTiered /\ [][NextRelease]_vars

\* The offset lies inside one of the arenas ar.
InArena(ar, offset) ==
    \E t \in Tiers : Arena_contains(ar[t], memory_base + offset)

\* C25: in tiered mode a free of an offset inside an arena changes no tier's
\* usage, capacity, high-water mark or total_allocated (nor anything else of
\* the arenas or the region).
C25_TieredFreeNoOp ==
    [][(/\ strategy = "Tiered"
        /\ last'.op = "free"
        /\ hist' = hist
        /\ InArena(arena, last'.offset))
          => (/\ arena' = arena
              /\ \A t \in Tiers :
                    TieredAllocator_tier_stats(TA, t)'
                        = TieredAllocator_tier_stats(TA, t)
              /\ pages' = pages
              /\ trapped' = trapped)]_vars

\* C25 witness: a free of a nonzero offset inside an arena that holds
\* allocations has returned.
C25_Witness ==
    /\ strategy = "Tiered"
    /\ last.op = "free"
    /\ last.offset # 0
    /\ arena = last.pre_arena
    /\ \E t \in Tiers :
          /\ Arena_usage(arena[t]) > 0
          /\ Arena_contains(arena[t], memory_base + last.offset)

\* ------------------------------------------------------- layout of the arenas
\* Page counts the memory can have when Walloc::new_tiered runs.
InitialPages == {InitPages, InitPages + 1}

\* Walloc::new_tiered on a memory of any of these page counts
InitLayout ==
    \E p \in InitialPages :
        /\ pages = p
        /\ memory_base = p
        /\ memory_size = p * 65536
        /\ trapped = FALSE
        /\ live = {}
        /\ released = {}
        /\ hist = [t \in Tiers |-> NoHist]
        /\ rejected = NoCall
        /\ nops = 0
        /\ last = NoCall
        /\ wevent = WEvent_new(0)
        /\ caller = [c \in Callers |-> Idle("Entity")]
        /\ strategy = "Tiered"
        /\ mem = << >>
        /\ free_list_head = NULL
        /\ heap_end = NULL
        /\ arena = TieredAllocator_new(p, p * 65536, p).arena

SpecLayout == InitLayout /\ [][NextTiered]_vars

\* The byte ranges [base, base + capacity) of two arenas share no byte.
RangesApart(a, b) ==
    a.base + a.size <= b.base \/ b.base + b.size <= a.base

\* C26 as stated: the ranges of the Render, Scene and Entity arenas are
\* pairwise disjoint in every state, growth included.
C26_ArenasDisjoint ==
    \A t, u \in Tiers : t # u => RangesApart(arena[t], arena[u])

\* ------------------------------------------------- compaction that grows
\* Tiered mode with requests and preserve sizes beyond one page.
NextCompact ==
    \/ \E size \in {100, 70000}, n \in {0, 2}, oracle \in TOracles :
          AllocateTiered(size, n, oracle)
    \/ \E n \in {0, 2}, k \in {70000, 135000, 200000}, oracle \in TOracles :
          FastCompactTier(n, k, oracle)

SpecCompact == InitTiered /\ [][NextCompact]_vars

\* The last call on tier t was a fast_compact_tier that grew the region and
\* returned true.
CompactGrew(t) ==
    /\ hist[t].call.op = "fast_compact_tier"
    /\ hist[t].call.grew
    /\ hist[t].call.ret

\* C27: after a fast_compact_tier(t, K) that grew the region and returned
\* true, the arena of t lies in the pages the call added, the bytes carried
\* over are the first min(old usage, K) bytes of the old arena placed at the
\* start of the new one, they fit the new arena, and the cursor is K.
C27_GrowCompactCarriesPrefix ==
    \A t \in Tiers : CompactGrew(t) =>
        LET c == hist[t].call
            n == IF c.pre.current_offset < c.preserve_bytes
                 THEN c.pre.current_offset ELSE c.preserve_bytes
        IN  /\ c.preserve_bytes > Arena_capacity(c.pre)
            /\ arena[t].base = c.pre_pages * PageSize
            /\ c.copy.len = n
            /\ n > 0 => (c.copy.src = c.pre.base /\ c.copy.dst = arena[t].base)
            /\ n <= Arena_capacity(arena[t])
            /\ Arena_usage(arena[t]) = c.preserve_bytes

\* C27 witness: such a call carried a prefix of more than one page over.
C27_Witness ==
    \E t \in Tiers :
        /\ CompactGrew(t)
        /\ hist[t].call.copy.len > PageSize
        /\ hist[t].call.copy.dst = arena[t].base

\* ------------------------------------------ concurrent arena: termination
\* A step of caller c inside a call it has entered.
CallerStep(c) ==
    ArenaCas(c) \/ ArenaHwmLoad(c) \/ ArenaHwmStore(c) \/ ArenaAdd(c)

\* Every caller that has entered Arena::allocate keeps being scheduled.
SpecConcFair == SpecConc /\ \A c \in Callers : WF_vars(CallerStep(c))

\* Caller d's compare_exchange succeeded on a cursor value that caller c's
\* last read had not yet been overtaken by: d succeeded after c read.
SucceededSince(d, c) ==
    /\ Reserved(d)
    /\ caller[d].aligned_size > 0
    /\ RangeLo(d) >= caller[c].current_offset

\* C28: under weak fairness every call that entered Arena::allocate returns,
\* and a compare_exchange of caller c fails only in a state where another
\* caller's allocation has succeeded since c read the cursor.
C28_CallsReturn ==
    /\ \A c \in Callers : (caller[c].pc = "cas") ~> (caller[c].pc = "done")
    /\ [][\A c \in Callers :
             caller'[c].fails > caller[c].fails
                => \E d \in Callers \ {c} : SucceededSince(d, c)]_vars

\* C28 witness: every caller's call has returned and one of them lost a
\* compare_exchange on the way.
C28_Witness ==
    /\ \A c \in Callers : caller[c].pc = "done"
    /\ \E c \in Callers : caller[c].fails > 0 /\ caller[c].ret # NULL
    /\ \E c \in Callers : caller[c].fails = 0 /\ caller[c].ret # NULL

\* -------------------------------------------- free-list allocator: growth
\* C29: an allocate grows the region only when no free block of the list
\* fits, at most once, and a call that grew returns a payload taken from the
\* start of the block the growth appended.
C29_GrowsOnceThenServes ==
    last.op = "allocate" =>
        /\ last.grows <= 1
        /\ (last.grows = 1) = (pages > last.pre_pages)
        /\ last.grows = 1 =>
              /\ LastFits = {}
              /\ ~trapped
              /\ last.ptr # NULL
              /\ LastBlock = last.pre_end
              /\ heap_end - last.pre_end = (pages - last.pre_pages) * PageSize
              /\ heap_end - last.pre_end >= LastNeeded
              /\ ~BFree(mem, LastBlock)

\* C29 witness: the list held a free block too small for the request, the
\* call grew the region and returned a payload from the appended block.
C29_Witness ==
    /\ last.op = "allocate"
    /\ last.grows = 1
    /\ last.ptr = last.pre_end + HeaderSize
    /\ \E i \in 1..Len(last.pre) : last.pre[i].free
    /\ \E i \in 1..Len(last.pre) : ~last.pre[i].free

\* ----------------------------------------- free-list allocator: size rounding
\* C30 as stated: whatever word is requested, a successful allocate hands out
\* a block whose payload capacity, size minus header, is at least the request.
C30_PayloadHoldsRequest ==
    (last.op = "allocate" /\ last.outcome = "Returned" /\ last.ptr # NULL) =>
        ~usize_gt(last.size, ToWord(BSize(mem, LastBlock) - HeaderSize))

\* ------------------------------------------------ Arena, any word as size
\* The tier's alignment, as `match self.tier` selects it in Arena::allocate.
Arena_alignment(tier) ==
    CASE tier = "Render" -> 128
      [] tier = "Scene" -> 64
      [] tier = "Entity" -> 8

\* Arena::allocate for any word, run by one caller.  aligned_size is
\* (size + a - 1) & !(a - 1) and the bound check is
\* current_offset + aligned_size > self.size, both in word arithmetic: a
\* debug build panics on an overflowing addition, a release build wraps.
\* fetch_add wraps in every build.
Arena_allocate_word(a, tier, size, build) ==
    LET al == Arena_alignment(tier)
        up == usize_add(size, Word(0, al - 1))
        aligned_size == word_mask(up.sum, al)
        new == usize_add(ToWord(a.current_offset), aligned_size)
        new_offset == FromWord(new.sum)
        total == usize_add(ToWord(a.total_allocated), aligned_size)
    IN  IF build = "debug" /\ up.overflow
        THEN [arena |-> a, outcome |-> "Panic", ptr |-> NULL,
              aligned |-> aligned_size]
        ELSE IF build = "debug" /\ new.overflow
        THEN [arena |-> a, outcome |-> "Panic", ptr |-> NULL,
              aligned |-> aligned_size]
        ELSE IF usize_gt(new.sum, ToWord(a.size))
        THEN [arena |-> a, outcome |-> "None", ptr |-> NULL,
              aligned |-> aligned_size]
        ELSE [arena |-> [a EXCEPT
                           !.current_offset = new_offset,
                           !.high_water_mark =
                               IF new_offset > @ THEN new_offset ELSE @,
                           !.total_allocated = FromWord(total.sum)],
              outcome |-> "Some", ptr |-> a.base + a.current_offset,
              aligned |-> aligned_size]

\* Sizes handed to Arena::allocate: two ordinary ones, 2^31, the largest
\* multiple of 128, and the largest word.
ArenaWordSizes ==
    {Word(0, 100), Word(0, 8192), Word(32768, 0), Word(65535, 65408),
     Word(65535, 65535)}

\* arena.allocate(size) on the arena of one tier
ArenaAllocateWord(tier, size, build) ==
    /\ strategy = "Tiered"
    /\ ~trapped
    /\ nops < MaxTierOps
    /\ LET r == Arena_allocate_word(arena[tier], tier, size, build)
       IN  /\ arena' = [arena EXCEPT ![tier] = r.arena]
           /\ trapped' = (r.outcome = "Panic")
           /\ last' = [op |-> "arena_allocate", tier |-> tier,
                       size |-> size, build |-> build,
                       outcome |-> r.outcome, aligned |-> r.aligned,
                       ptr |-> r.ptr, pre |-> arena[tier]]
    /\ nops' = nops + 1
    /\ UNCHANGED <<caller, strategy, memory_base, pages, memory_size, mem,
                   free_list_head, heap_end, live, released, hist, rejected,
                   wevent>>

NextArenaWord ==
    \E tier \in Tiers, size \in ArenaWordSizes, build \in Builds :
        ArenaAllocateWord(tier, size, build)

SpecArenaWord == InitTiered /\ [][NextArenaWord]_vars

\* aligned is the least multiple of al that is >= size, as numbers.
LeastMultiple(aligned, size, al) ==
    /\ aligned.lo % al = 0
    /\ aligned.hi - size.hi \in {0, 1}
    /\ (aligned.hi - size.hi) * 65536 + aligned.lo - size.lo \in 0..(al - 1)

\* C31 as stated: for every word as size, Arena::allocate does not abort, and
\* when it succeeds the aligned size it reports is the least multiple of the
\* tier alignment >= size and cursor + aligned size is within the capacity.
C31_ArenaNoWrap ==
    last.op = "arena_allocate" =>
        /\ last.outcome # "Panic"
        /\ last.outcome = "Some" =>
              /\ LeastMultiple(last.aligned, last.size,
                               Arena_alignment(last.tier))
              /\ FitsInt(last.aligned)
              /\ last.pre.current_offset + FromWord(last.aligned)
                    <= last.pre.size

\* ------------------------------------------ concurrent arena: the peak mark
\* Every caller's call has returned.
AllReturned == \A c \in Callers : caller[c].pc = "done"

\* C32 as stated: under every interleaving of N callers of Arena::allocate
\* on one arena no step lowers high_water_mark, and once every call has
\* returned high_water_mark equals the cursor.
C32_MarkNeverDrops ==
    /\ [][\A t \in Tiers :
             arena'[t].high_water_mark >= arena[t].high_water_mark]_vars
    /\ [](AllReturned =>
             \A t \in Tiers :
                 arena[t].high_water_mark = arena[t].current_offset)

\* ------------------------------------------- free-list allocator: coalescing
\* Blocks i and i + 1 of the list are both free.
FreePair(bs, i) == bs[i].free /\ bs[i + 1].free

\* C33: after every completed allocate or free call of a caller that frees
\* only offsets it holds, no two consecutive blocks of the list are both free.
C33_FullyCoalesced ==
    ~trapped =>
        \A i \in 1..(Len(Blocks(DA)) - 1) : ~FreePair(Blocks(DA), i)

\* C33 witness: an allocation grew the heap behind a free last block that was
\* too small for it and was served from the new block.
C33_Witness ==
    /\ last.op = "allocate"
    /\ last.grows = 1
    /\ last.ret # 0
    /\ last.pre[Len(last.pre)].free
    /\ Len(Blocks(DA)) = Len(last.pre) + 2
    /\ ~trapped

\* ------------------------------------------- facade: allocations in bounds
\* The request of the last allocate call as a word.
LastSizeWord == IF "build" \in DOMAIN last THEN last.size ELSE ToWord(last.size)

\* The last allocate call returned an offset.
LastReturned ==
    /\ last.op = "allocate"
    /\ last.ptr # NULL
    /\ "outcome" \in DOMAIN last => last.outcome = "Returned"

\* C34 as stated: every offset o returned by a successful allocate(size) or
\* allocate_tiered(size, t) has o + size <= memory_size, as numbers, when it
\* is returned.
C34_AllocationInBounds ==
    /\ LastReturned => ~Exceeds(ToWord(last.ret), LastSizeWord, memory_size)
    /\ \A t \in Tiers :
          (hist[t].call.op = "allocate_tiered" /\ hist[t].call.ptr # NULL)
             => hist[t].call.ret + hist[t].call.size
                   <= hist[t].call.memory_size

\* ---------------------------------------------- managed ranges and memory
\* The range [lo, hi) lies in the linear memory of the current page count.
InMemory(lo, hi) == 0 <= lo /\ lo <= hi /\ hi <= pages * PageSize

\* C35 as stated: the heap of the free-list allocator and every arena lie
\* inside the linear memory, at construction and after every growth.
C35_RangesInMemory ==
    /\ strategy = "Default" => InMemory(heap_start, heap_end)
    /\ strategy = "Tiered" =>
          \A t \in Tiers :
              InMemory(arena[t].base, arena[t].base + arena[t].size)

\* --------------------------------------- tiered allocator: failed requests
\* The step is an allocate_tiered call on tier t that returned 0 for want of
\* space.
FailedAllocate(t) ==
    /\ nops' = nops + 1
    /\ hist'[t] # hist[t]
    /\ hist'[t].call.op = "allocate_tiered"
    /\ hist'[t].call.ptr = NULL

\* C36 as stated: an allocate_tiered call that fails leaves the usage,
\* capacity, high-water mark and total_allocated of every tier as they were.
C36_FailureKeepsTiers ==
    [][\A t \in Tiers :
          FailedAllocate(t) =>
             \A u \in Tiers : Arena_get_stats(arena'[u])
                                 = Arena_get_stats(arena[u])]_vars

\* ------------------------------------------------ tiered allocator: capacity
\* C37 as stated: no call that returns lowers the capacity of a tier.
C37_CapacityNeverDrops ==
    [][~trapped' =>
          \A t \in Tiers :
              Arena_capacity(arena'[t]) >= Arena_capacity(arena[t])]_vars

\* ------------------------------------------- tiered allocator: alignment
\* C38 as stated: every tier's cursor is a multiple of the tier's alignment,
\* and every offset returned in a tier is aligned relative to the arena base.
C38_CursorAligned ==
    \A t \in Tiers :
        /\ arena[t].current_offset % TierAlign(t) = 0
        /\ (hist[t].call.op = "allocate_tiered" /\ hist[t].call.ptr # NULL)
              => (hist[t].call.ptr - arena[t].base) % TierAlign(t) = 0

\* The bytes the growth of the last call on tier t asked for: the request of
\* an allocation, preserve_bytes less the old cursor for a compaction.
GrowthRequest(c) ==
    IF c.op = "allocate_tiered" THEN c.size
    ELSE c.preserve_bytes - c.pre.current_offset

\* The step is a call on tier t that rebuilt the tier's arena over new pages.
GrewIn(t) ==
    /\ hist'[t] # hist[t]
    /\ hist'[t].call.op \in {"allocate_tiered", "fast_compact_tier"}
    /\ hist'[t].call.grew

\* C37, amended: a tier's capacity changes only when a call on the tier grows
\* the region, and it then becomes the size of the pages added for that
\* call's request, which may be less than the capacity before.
C37_CapacityFollowsGrowth ==
    [][\A t \in Tiers :
          IF GrewIn(t)
          THEN Arena_capacity(arena'[t])
                  = PagesFor(GrowthRequest(hist'[t].call)) * PageSize
          ELSE Arena_capacity(arena'[t]) = Arena_capacity(arena[t])]_vars

\* C37 witness: an allocation that grew the region returned, and left its
\* tier with less capacity than before.
C37_Witness ==
    \E t \in Tiers :
        /\ hist[t].call.op = "allocate_tiered"
        /\ hist[t].call.grew
        /\ hist[t].call.ptr # NULL
        /\ ~trapped
        /\ Arena_capacity(arena[t]) < Arena_capacity(hist[t].call.pre)

\* The step is a call of kind op on tier t.
CallStep(t, op) == hist'[t] # hist[t] /\ hist'[t].call.op = op

\* C38, amended: allocate_tiered and reset_tier leave the cursor of their
\* tier a multiple of the tier's alignment when it was one before, and an
\* allocation then returns an offset aligned relative to the arena base; a
\* fast_compact_tier(t, K) that returns true leaves the cursor at K, whatever
\* the alignment of K, and calls on other tiers leave the cursor alone.
C38_AlignedUnlessCompacted ==
    [][\A t \in Tiers :
          LET c == hist'[t].call
              al == TierAlign(t)
          IN  /\ (CallStep(t, "allocate_tiered")
                    /\ arena[t].current_offset % al = 0)
                 => /\ arena'[t].current_offset % al = 0
                    /\ c.ptr # NULL => (c.ptr - arena'[t].base) % al = 0
              /\ CallStep(t, "reset_tier")
                 => arena'[t].current_offset = 0
              /\ (CallStep(t, "fast_compact_tier") /\ c.ret)
                 => arena'[t].current_offset = c.preserve_bytes
              /\ hist'[t] = hist[t]
                 => arena'[t].current_offset = arena[t].current_offset]_vars

\* C38 witness: a compaction truncated a tier to a cursor off the tier's
\* grid (the cursor stayed within the allocated prefix), and the next
\* allocation in the tier returned a misaligned offset.
C38_Witness ==
    \E t \in Tiers :
        LET c == hist[t].call
        IN  /\ c.op = "allocate_tiered"
            /\ c.ptr # NULL
            /\ c.pre.current_offset % TierAlign(t) # 0
            /\ c.pre.current_offset <= c.pre.high_water_mark
            /\ (c.ptr - arena[t].base) % TierAlign(t) # 0
            /\ arena[t].current_offset % TierAlign(t) # 0

\* ------------------------------------------- tiered allocator: other tiers
\* C39: a call on one tier leaves the arenas of the other two tiers as they
\* were: base, usage, capacity, high-water mark and total_allocated.  An
\* arena changes only in a step that is a call on its own tier.
C39_OtherTiersUntouched ==
    [][/\ \A t \in Tiers :
             hist'[t] # hist[t] =>
                \A u \in Tiers \ {t} :
                    /\ arena'[u] = arena[u]
                    /\ hist'[u] = hist[u]
       /\ hist' = hist => arena' = arena]_vars

\* C39 witness: one tier holds allocations made before any growth, and a
\* later allocation in another tier grew the region and rebuilt that tier.
C39_Witness ==
    \E t \in Tiers, u \in Tiers :
        /\ t # u
        /\ hist[u].call.op = "allocate_tiered"
        /\ hist[u].call.ptr # NULL
        /\ hist[u].call.memory_size = InitPages * PageSize
        /\ arena[u].current_offset > 0
        /\ hist[t].call.op = "allocate_tiered"
        /\ hist[t].call.grew
        /\ hist[t].call.memory_size > InitPages * PageSize

\* ------------------------------------------------------ WEvent: the tick
\* Timer::elapsed_ms: milliseconds from the timer's start to now.
Timer_elapsed_ms(w) == w.now - w.start

\* a - b on u64: whether the true difference is negative, and the true
\* difference; a wrapped result stands for 2^64 + value.
u64_sub(a, b) == [wrapped |-> a < b, value |-> a - b]

\* d >= c for a u64 difference d and a c far below 2^63.
u64_ge(d, c) == d.wrapped \/ d.value >= c

\* WEvent::update: a debug build panics on the underflowing subtraction, a
\* release build wraps it.  push_event stamps the event with elapsed_ms.
WEvent_update(w, build) ==
    LET current_time == Timer_elapsed_ms(w)
        d == u64_sub(current_time, w.last_tick_time)
        due == u64_ge(d, w.tick_interval_ms)
        rec == [op |-> "update", build |-> build,
                current_time |-> current_time,
                pre_last_tick_time |-> w.last_tick_time,
                pre_len |-> Len(w.event_queue), underflow |-> d.wrapped]
    IN  IF d.wrapped /\ build = "debug"
        THEN [w EXCEPT !.panicked = TRUE, !.call = rec]
        ELSE IF due
        THEN [w EXCEPT
                !.last_tick_time = current_time,
                !.event_queue =
                    Append(@, [event_type |-> "Tick",
                               timestamp |-> Timer_elapsed_ms(w),
                               data |-> current_time]),
                !.call = rec]
        ELSE [w EXCEPT !.call = rec]

\* Timer::reset
Timer_reset(w) == [w EXCEPT !.start = w.now]

\* Milliseconds that pass between two calls.
ClockSteps == {8, 16}

WEventFrame ==
    UNCHANGED <<strategy, memory_base, pages, memory_size, mem,
                free_list_head, heap_end, arena, trapped, live, released,
                hist, rejected, nops, last, caller>>

\* Time passes.
ClockAdvance(d) ==
    /\ ~wevent.panicked
    /\ wevent.now + d <= MaxClock
    /\ wevent' = [wevent EXCEPT !.now = @ + d]
    /\ WEventFrame

\* events.update()
Update(build) ==
    /\ ~wevent.panicked
    /\ wevent' = WEvent_update(wevent, build)
    /\ WEventFrame

\* events.timer_mut().reset()
TimerReset ==
    /\ ~wevent.panicked
    /\ wevent' = [Timer_reset(wevent) EXCEPT !.call = [op |-> "reset"]]
    /\ WEventFrame

NextEvent ==
    \/ \E d \in ClockSteps : ClockAdvance(d)
    \/ \E build \in Builds : Update(build)
    \/ TimerReset

SpecEvent == InitDefault /\ [][NextEvent]_vars

\* Events the last update call put on the queue.
Pushed == Len(wevent.event_queue) - wevent.call.pre_len

\* C40 as stated: every update call returns without underflow of
\* current_time - last_tick_time, enqueues at most one Tick, enqueues it only
\* when the elapsed milliseconds less last_tick_time reach tick_interval_ms,
\* and then sets last_tick_time to the current time; whatever updates and
\* timer resets came before.
C40_TickOnlyWhenDue ==
    wevent.call.op = "update" =>
        LET c == wevent.call
        IN  /\ ~wevent.panicked
            /\ ~c.underflow
            /\ Pushed \in {0, 1}
            /\ Pushed = 1 =>
                  /\ c.current_time - c.pre_last_tick_time
                        >= wevent.tick_interval_ms
                  /\ wevent.last_tick_time = c.current_time

====
